---- MODULE Spec2Model ----
\* A model of viewer.py: the Viewer class (setup in __init__, the per-frame
\* update, the resize callback, load_shader) and the script that drives it.
EXTENDS Integers, Sequences, FiniteSets, TLC

\* ------------------------------------------------------------------ bounds

\* Frames that may change the camera transform before it is reset (the
\* transform grows by one factor group for each such frame).
MaxMoves == 1

\* Vertices of the models an importing program passes to the constructor.
MaxVerts == 1

\* ------------------------------------------------------------------ inputs

\* __main__'s model_vertices: four vertices, three floats each.
SampleVertices == <<10, 10, 50, -10, 10, 50, 10, -10, 50, -10, -10, 50>>

\* A model of n vertices in the format [X1, Y1, Z1, X2, ...].
ModelOf(n) == [i \in 1..(3 * n) |-> 0]

Keys == {"ESCAPE", "SPACE", "W", "S", "A", "D", "LEFT_SHIFT",
         "UP", "DOWN", "LEFT", "RIGHT"}

\* The key states glfw may report after a poll_events: nothing, each key
\* alone, opposite keys together, the SHIFT variants of W and S, and chords
\* mixing ESCAPE, SPACE and movement keys.
Chords ==
    {{}} \cup {{k} : k \in Keys}
    \cup {{"W", "S"}, {"A", "D"}, {"UP", "DOWN"}, {"LEFT", "RIGHT"}}
    \cup {{"W", "LEFT_SHIFT"}, {"S", "LEFT_SHIFT"}, {"W", "S", "LEFT_SHIFT"}}
    \cup {{"W", "S", "A", "D", "UP", "DOWN", "LEFT", "RIGHT"}, {"W", "S", "A"}}
    \cup {{"SPACE", "W"}, {"ESCAPE", "W"}, {"ESCAPE", "SPACE"}}

\* Window sizes a resize may report, and the framebuffer pixels per window
\* unit of the display (2 on a retina display).
WindowSizes == {<<640, 480>>, <<480, 480>>}
Scales == {1, 2}

\* ------------------------------------------------------------------ state

VARIABLES
    pc,                     \* position of the program
    caller,                 \* "main": run as a script; "import": Viewer imported
    model_vertices_arg,     \* the constructor's model_vertices argument
    model_vertices,         \* the module global model_vertices: <<>> unbound, <<list>> bound
    window_size,            \* self.window_size
    framebuffer_size,       \* what glfw.get_framebuffer_size reports
    viewport,               \* width and height of the GL viewport
    transform_matrix,       \* self.camera_property.transform_matrix
    mvp_matrix,             \* the uniform mvp_matrix on the GPU
    keys,                   \* keys glfw.get_key reports as PRESS
    should_close,           \* the window's close flag
    camera_moves,           \* frames that changed the transform since its last reset
    setup_log,              \* setup steps completed, in order
    gl_calls,               \* calls made by the last call of update, in order
    drawn,                  \* vertex counts of the glDrawArrays of the last update
    last_result,            \* outcome of the last update: "none", "True", "False", "raised"
    stdout,                 \* lines printed
    failure,                \* the setup failure met, "none" if none
    exception,              \* the uncaught exception, "none" if none
    shader_load             \* the load_shader calls made: [file_ok, compile_ok, outcome]

vars == <<pc, caller, model_vertices_arg, model_vertices, window_size,
          framebuffer_size, viewport, transform_matrix, mvp_matrix, keys,
          should_close, camera_moves, setup_log, gl_calls, drawn, last_result,
          stdout, failure, exception, shader_load>>

camera_vars == <<transform_matrix, mvp_matrix, camera_moves>>
window_vars == <<window_size, framebuffer_size, viewport>>
frame_vars == <<keys, should_close, gl_calls, drawn, last_result>>
program_vars == <<caller, model_vertices_arg, model_vertices>>

\* ------------------------------------------------------------------ matrices
\* A mat4 is kept as the product of its non-identity elementary factors, in
\* order: <<>> is the identity, and multiplying concatenates.

Identity == <<>>

Mul(a, b) == a \o b

Zero3 == <<0, 0, 0>>

Neg3(v) == <<0 - v[1], 0 - v[2], 0 - v[3]>>

\* glm.translate(m, v) is m * T(v); T(0) is the identity.
translate(m, v) ==
    IF v = Zero3 THEN m ELSE Mul(m, <<[op |-> "translate", v |-> v]>>)

\* glm.rotate(m, angle, axis) is m * R(angle, axis); R(0, axis) is the identity.
rotate(m, angle, axis) ==
    IF angle = 0 THEN m
    ELSE Mul(m, <<[op |-> "rotate", angle |-> angle, axis |-> axis]>>)

RECURSIVE GCD(_, _)
GCD(a, b) == IF b = 0 THEN a ELSE GCD(b, a % b)

\* glm.perspectiveFovLH_NO(fov, width, height, near, far): with fov, near and
\* far fixed the matrix depends on width and height through height / width only.
perspectiveFovLH_NO(width, height) ==
    [op |-> "perspective", num |-> height \div GCD(width, height),
     den |-> width \div GCD(width, height)]

NoMatrix == [proj |-> [op |-> "none", num |-> 0, den |-> 0], view |-> Identity]

\* ------------------------------------------------------------------ helpers

print(out, line) == Append(out, line)

ErrorLines == {"[GLFW Error] Failed to initialize GLFW. ",
               "[GLFW Error] Failed to Create a window. ",
               "[GL Error] Failed to allocate memory for buffer. ",
               "[CV Error] Cannot open image",
               "[GLFW Error] shader info log"}

\* Viewer.on_error: GLFW reports its failures through the error callback.
on_error(out) == print(out, "[GLFW Error] message (code)")

\* sys.exit(): the process ends by SystemExit.
SysExit(why) ==
    /\ pc' = "sys_exit"
    /\ failure' = why
    /\ UNCHANGED exception

\* An exception nobody catches ends the process with a traceback.
Uncaught(name, why) ==
    /\ pc' = "error"
    /\ exception' = name
    /\ failure' = why

\* The next statement of the constructor is reached.
Goto(next) ==
    /\ pc' = next
    /\ UNCHANGED <<failure, exception>>

\* ------------------------------------------------------------------ Init

Init ==
    /\ pc = "glfw_init"
    /\ \/ /\ caller = "main"
          /\ model_vertices_arg = SampleVertices
          /\ model_vertices = <<SampleVertices>>
       \/ /\ caller = "import"
          /\ model_vertices_arg \in {ModelOf(n) : n \in 1..MaxVerts}
          /\ model_vertices \in {<<>>, <<SampleVertices>>}
    /\ window_size = <<0, 0>>
    /\ framebuffer_size = <<0, 0>>
    /\ viewport = <<0, 0>>
    /\ transform_matrix = Identity
    /\ mvp_matrix = NoMatrix
    /\ keys = {}
    /\ should_close = FALSE
    /\ camera_moves = 0
    /\ setup_log = <<>>
    /\ gl_calls = <<>>
    /\ drawn = <<>>
    /\ last_result = "none"
    /\ stdout = <<>>
    /\ failure = "none"
    /\ exception = "none"
    /\ shader_load = <<>>

\* ------------------------------------------------------------------ setup
\* Viewer.__init__, one action for each of its sections.

GlfwInit ==
    /\ pc = "glfw_init"
    /\ \E ok \in BOOLEAN :
         IF ok
         THEN /\ stdout' = print(stdout, "Initializing Viewer...")
              /\ Goto("create_window")
         ELSE /\ stdout' = print(on_error(print(stdout, "Initializing Viewer...")),
                                 "[GLFW Error] Failed to initialize GLFW. ")
              /\ SysExit("glfw_init")
    /\ UNCHANGED <<program_vars, window_vars, camera_vars, frame_vars,
                   setup_log, shader_load>>

CreateWindow ==
    /\ pc = "create_window"
    /\ window_size' = <<640, 480>>
    /\ \E created \in BOOLEAN :
         IF created
         THEN /\ stdout' = print(stdout, "- Creating a window.")
              /\ \E s \in Scales :
                   framebuffer_size' = <<s * window_size'[1], s * window_size'[2]>>
              /\ viewport' = framebuffer_size'
              /\ setup_log' = Append(setup_log, "initialize-window")
              /\ Goto("vertex_buffer")
         ELSE /\ stdout' = print(on_error(print(stdout, "- Creating a window.")),
                                 "[GLFW Error] Failed to Create a window. ")
              /\ UNCHANGED <<framebuffer_size, viewport, setup_log>>
              /\ SysExit("window")
    /\ UNCHANGED <<program_vars, camera_vars, frame_vars, shader_load>>

PrepareVertexBuffer ==
    /\ pc = "vertex_buffer"
    /\ LET size_expected == 4 * Len(model_vertices_arg)
       IN \E size_allocated \in {size_expected, 0} :
            IF size_allocated # size_expected
            THEN /\ stdout' = print(print(stdout, "- Preparing buffers."),
                                    "[GL Error] Failed to allocate memory for buffer. ")
                 /\ SysExit("vertex_buffer")
            ELSE /\ stdout' = print(stdout, "- Preparing buffers.")
                 /\ Goto("uv_buffer")
    /\ UNCHANGED <<program_vars, window_vars, camera_vars, frame_vars,
                   setup_log, shader_load>>

PrepareUVBuffer ==
    /\ pc = "uv_buffer"
    /\ \E allocated \in BOOLEAN :
         IF ~allocated
         THEN /\ stdout' = print(stdout,
                                 "[GL Error] Failed to allocate memory for buffer. ")
              /\ UNCHANGED setup_log
              /\ SysExit("uv_buffer")
         ELSE /\ setup_log' = Append(setup_log, "upload-mesh")
              /\ UNCHANGED stdout
              /\ Goto("texture")
    /\ UNCHANGED <<program_vars, window_vars, camera_vars, frame_vars, shader_load>>

PrepareTexture ==
    /\ pc = "texture"
    /\ \E image_read \in BOOLEAN :
         IF ~image_read
         THEN /\ stdout' = print(print(stdout, "- Preparing textures."),
                                 "[CV Error] Cannot open image")
              /\ UNCHANGED setup_log
              /\ SysExit("texture")
         ELSE /\ stdout' = print(stdout, "- Preparing textures.")
              /\ setup_log' = Append(setup_log, "upload-texture")
              /\ Goto("camera")
    /\ UNCHANGED <<program_vars, window_vars, camera_vars, frame_vars, shader_load>>

\* PrepareCamera with the constructor returning before the shader section.
PrepareCamera_SkipShaders ==
    /\ pc = "camera"
    /\ stdout' = print(stdout, "- Setting camera parameters.")
    /\ transform_matrix' = Identity
    /\ setup_log' = Append(setup_log, "set-camera")
    /\ Goto("loop")
    /\ UNCHANGED <<program_vars, window_vars, mvp_matrix, camera_moves, frame_vars,
                   shader_load>>

PrepareCamera ==
    /\ pc = "camera"
    /\ stdout' = print(stdout, "- Setting camera parameters.")
    /\ transform_matrix' =
         rotate(rotate(rotate(translate(Identity, Zero3), 0, "x"), 0, "y"), 0, "z")
    /\ setup_log' = Append(setup_log, "set-camera")
    /\ Goto("vert_shader")
    /\ UNCHANGED <<program_vars, window_vars, mvp_matrix, camera_moves, frame_vars,
                   shader_load>>

\* Viewer.load_shader: open() raises when the file cannot be opened; a compile
\* status other than GL_TRUE prints the info log and returns False.
load_shader(file_ok, compile_ok) ==
    IF ~file_ok THEN [outcome |-> "raised", out |-> <<>>]
    ELSE IF ~compile_ok
         THEN [outcome |-> "False", out |-> <<"[GLFW Error] shader info log">>]
         ELSE [outcome |-> "True", out |-> <<>>]

\* is_loaded = Viewer.load_shader(...); if not is_loaded: sys.exit()
LoadShader(out, next) ==
    \E file_ok \in BOOLEAN, compile_ok \in BOOLEAN :
      LET r == load_shader(file_ok, compile_ok)
      IN /\ shader_load' = Append(shader_load,
               [file_ok |-> file_ok, compile_ok |-> compile_ok, outcome |-> r.outcome])
         /\ stdout' = out \o r.out
         /\ CASE r.outcome = "raised" -> Uncaught("OSError", "shader_file")
              [] r.outcome = "False" -> SysExit("shader_compile")
              [] OTHER -> Goto(next)

LoadVertexShader ==
    /\ pc = "vert_shader"
    /\ LoadShader(print(stdout, "- Preparing shaders."), "frag_shader")
    /\ UNCHANGED <<program_vars, window_vars, camera_vars, frame_vars, setup_log>>

LoadFragmentShader ==
    /\ pc = "frag_shader"
    /\ LoadShader(stdout, "link")
    /\ UNCHANGED <<program_vars, window_vars, camera_vars, frame_vars, setup_log>>

\* On a link status other than GL_TRUE the message is built from shader_id, a
\* name that is bound nowhere in __init__: NameError before anything is printed.
LinkProgram ==
    /\ pc = "link"
    /\ \E linked \in BOOLEAN :
         IF ~linked
         THEN /\ UNCHANGED <<stdout, setup_log>>
              /\ Uncaught("NameError", "link")
         ELSE /\ stdout' = print(stdout, "Initialization done. ")
              /\ setup_log' = Append(setup_log, "compile-shaders")
              /\ Goto("loop")
    /\ UNCHANGED <<program_vars, window_vars, camera_vars, frame_vars, shader_load>>

Setup ==
    \/ GlfwInit
    \/ CreateWindow
    \/ PrepareVertexBuffer
    \/ PrepareUVBuffer
    \/ PrepareTexture
    \/ PrepareCamera
    \/ LoadVertexShader
    \/ LoadFragmentShader
    \/ LinkProgram

\* ------------------------------------------------------------------ frame
\* Viewer.update, Viewer.update_camera_matrix, Viewer.window_size_callback.

Pressed(ks, k) == IF k \in ks THEN 1 ELSE 0

\* KeyTranslation with S moving along z whether or not LEFT_SHIFT is held.
KeyTranslation_SAlwaysZ(ks) ==
    LET shift == "LEFT_SHIFT" \in ks
        z == (IF ~shift THEN Pressed(ks, "W") ELSE 0) - Pressed(ks, "S")
        y == IF shift THEN Pressed(ks, "W") ELSE 0
        x == Pressed(ks, "D") - Pressed(ks, "A")
    IN <<x, y, z>>

\* The keyboard's translation, in units of trans_delta: W and S move along z,
\* or along y while LEFT_SHIFT is held; D and A move along x.
KeyTranslation(ks) ==
    LET shift == "LEFT_SHIFT" \in ks
        z == (IF ~shift THEN Pressed(ks, "W") ELSE 0)
             - (IF ~shift THEN Pressed(ks, "S") ELSE 0)
        y == (IF shift THEN Pressed(ks, "W") ELSE 0)
             - (IF shift THEN Pressed(ks, "S") ELSE 0)
        x == Pressed(ks, "D") - Pressed(ks, "A")
    IN <<x, y, z>>

\* The keyboard's rotation, in units of rot_delta: UP and DOWN turn about x,
\* LEFT and RIGHT about y; nothing turns about z.
KeyRotation(ks) ==
    <<Pressed(ks, "UP") - Pressed(ks, "DOWN"),
      Pressed(ks, "LEFT") - Pressed(ks, "RIGHT"),
      0>>

\* tmat of update: translate by -trans, then rotate about x, y and z.
DeltaMatrix(ks) ==
    LET trans == KeyTranslation(ks)
        rot == KeyRotation(ks)
    IN rotate(rotate(rotate(translate(Identity, Neg3(trans)),
                            rot[1], "x"), rot[2], "y"), rot[3], "z")

\* The camera motion of update: SPACE resets the transform, any other key
\* state multiplies the frame's delta onto it from the left.
CameraMotion(ks, transform) ==
    IF "SPACE" \in ks THEN Identity ELSE Mul(DeltaMatrix(ks), transform)

\* Frames that moved the camera since the last reset, after this frame.
MovesAfter(ks, moves) ==
    IF "SPACE" \in ks THEN 0
    ELSE IF DeltaMatrix(ks) # Identity THEN moves + 1 ELSE moves

\* update_camera_matrix: perspective from self.window_size times the transform,
\* uploaded to the uniform mvp_matrix.
update_camera_matrix(size, transform) ==
    [proj |-> perspectiveFovLH_NO(size[1], size[2]), view |-> transform]

\* window_size_callback(window, new_width, new_height), with the framebuffer
\* size glfw reports at that moment.
window_size_callback(new_width, new_height, fb_size, transform) ==
    [window_size |-> fb_size,
     mvp_matrix |-> update_camera_matrix(fb_size, transform),
     viewport |-> <<new_width, new_height>>]

\* The calls of one rendering update, in the order of its statements.
KeyReadCalls == <<"get_key">>
CameraCalls == <<"transform_matrix", "glUniformMatrix4fv">>
\* DrawCalls with the clear issued after the draw.
DrawCalls_ClearAfterDraw == <<"glDrawArrays", "glClear">>
DrawCalls == <<"glClear", "glDrawArrays">>
PresentCalls == <<"swap_buffers", "poll_events">>
RenderCalls == KeyReadCalls \o CameraCalls \o DrawCalls \o PresentCalls
CallbackCalls == <<"window_size_callback", "glUniformMatrix4fv", "glViewport">>

\* What one glfw.poll_events may deliver.
Events ==
    {[type |-> "none"], [type |-> "close"]}
    \cup {[type |-> "keys", keys |-> c] : c \in Chords}
    \cup {[type |-> "resize", size |-> w, scale |-> s] : w \in WindowSizes, s \in Scales}

\* UpdateResult with the comparison inverted.
UpdateResult_Inverted(closing) == IF closing THEN "True" ELSE "False"

\* return glfw.window_should_close(self.window) != gl.GL_TRUE
UpdateResult(closing) == IF closing THEN "False" ELSE "True"

\* while True: if not viewer.update(): print("Exit. "); break
\* A program that imports Viewer decides by itself whether to call update again.
MainLoop(result) ==
    IF caller = "main" /\ result = "False"
    THEN /\ stdout' = print(stdout, "Exit. ")
         /\ pc' = "exited"
    ELSE /\ pc' = "loop"
         /\ UNCHANGED stdout

\* UpdateEscape with the ESCAPE test placed after the camera motion.
UpdateEscape_AfterMotion ==
    /\ pc = "loop"
    /\ "ESCAPE" \in keys
    /\ transform_matrix' = CameraMotion(keys, transform_matrix)
    /\ gl_calls' = KeyReadCalls
    /\ drawn' = <<>>
    /\ last_result' = "False"
    /\ MainLoop("False")
    /\ UNCHANGED <<program_vars, window_vars, mvp_matrix, camera_moves, keys,
                   should_close, setup_log, failure, exception, shader_load>>

\* update with ESCAPE pressed: return False at once.
UpdateEscape ==
    /\ pc = "loop"
    /\ "ESCAPE" \in keys
    /\ gl_calls' = KeyReadCalls
    /\ drawn' = <<>>
    /\ last_result' = "False"
    /\ MainLoop("False")
    /\ UNCHANGED <<program_vars, window_vars, camera_vars, keys, should_close,
                   setup_log, failure, exception, shader_load>>

\* update through to its return: camera motion, MVP upload, clear, draw of
\* len(model_vertices) // 3 vertices of the module global, swap, poll_events
\* (which runs the resize callback and sets the key states and the close flag).
UpdateRender ==
    /\ pc = "loop"
    /\ "ESCAPE" \notin keys
    /\ model_vertices # <<>>
    /\ MovesAfter(keys, camera_moves) <= MaxMoves
    /\ \E e \in Events :
         LET transform == CameraMotion(keys, transform_matrix)
             resized == e.type = "resize"
             fb_size == IF resized
                        THEN <<e.scale * e.size[1], e.scale * e.size[2]>>
                        ELSE framebuffer_size
             cb == window_size_callback(e.size[1], e.size[2], fb_size, transform)
         IN /\ transform_matrix' = transform
            /\ camera_moves' = MovesAfter(keys, camera_moves)
            /\ drawn' = <<Len(model_vertices[1]) \div 3>>
            /\ framebuffer_size' = fb_size
            /\ IF resized
               THEN /\ window_size' = cb.window_size
                    /\ mvp_matrix' = cb.mvp_matrix
                    /\ viewport' = cb.viewport
                    /\ gl_calls' = RenderCalls \o CallbackCalls
               ELSE /\ mvp_matrix' = update_camera_matrix(window_size, transform)
                    /\ gl_calls' = RenderCalls
                    /\ UNCHANGED <<window_size, viewport>>
            /\ keys' = IF e.type = "keys" THEN e.keys ELSE keys
            /\ should_close' = (should_close \/ e.type = "close")
            /\ last_result' = UpdateResult(should_close')
            /\ MainLoop(last_result')
    /\ UNCHANGED <<program_vars, setup_log, failure, exception, shader_load>>

\* update when the module global model_vertices is unbound: NameError at the
\* glDrawArrays statement, after the camera update and the clear.
UpdateNameError ==
    /\ pc = "loop"
    /\ "ESCAPE" \notin keys
    /\ model_vertices = <<>>
    /\ MovesAfter(keys, camera_moves) <= MaxMoves
    /\ transform_matrix' = CameraMotion(keys, transform_matrix)
    /\ camera_moves' = MovesAfter(keys, camera_moves)
    /\ mvp_matrix' = update_camera_matrix(window_size, transform_matrix')
    /\ gl_calls' = KeyReadCalls \o CameraCalls \o <<"glClear">>
    /\ drawn' = <<>>
    /\ last_result' = "raised"
    /\ Uncaught("NameError", failure)
    /\ UNCHANGED <<program_vars, window_vars, keys, should_close, setup_log,
                   stdout, shader_load>>

Update ==
    \/ UpdateEscape
    \/ UpdateRender
    \/ UpdateNameError

Next == Setup \/ Update

Spec == Init /\ [][Next]_vars

\* The interpreter keeps running the loop: a call of update that is due with
\* ESCAPE pressed is made and returns.
LiveSpec == Init /\ [][Next]_vars /\ WF_vars(UpdateEscape)

\* ------------------------------------------------------------------ properties

Calls(log) == {log[i] : i \in DOMAIN log}

IsPrefix(a, b) == Len(a) <= Len(b) /\ a = SubSeq(b, 1, Len(a))

\* The last call of update got as far as rendering (it cleared the frame).
Rendering == "glClear" \in Calls(gl_calls)

\* The last call of update rendered a frame and returned.
Rendered == Rendering /\ last_result \in {"True", "False"}

\* update has been called at least once.
UpdateCalled == last_result # "none"

SpecSetupOrder ==
    <<"initialize-window", "compile-shaders", "upload-mesh", "upload-texture",
      "set-camera">>

CodeSetupOrder ==
    <<"initialize-window", "upload-mesh", "upload-texture", "set-camera",
      "compile-shaders">>

\* C1 as stated: the setup steps complete in the order initialize-window,
\* compile-shaders, upload-mesh, upload-texture, set-camera, all of them before
\* the first call of update.
C1_SpecOrder ==
    /\ IsPrefix(setup_log, SpecSetupOrder)
    /\ UpdateCalled => setup_log = SpecSetupOrder

\* C1 amended: the setup steps complete in the order initialize-window,
\* upload-mesh, upload-texture, set-camera, compile-shaders, and all five have
\* completed before update is first called.
C1_SetupOrder ==
    /\ IsPrefix(setup_log, CodeSetupOrder)
    /\ (pc = "loop" \/ UpdateCalled) => setup_log = CodeSetupOrder

C1_Witness == last_result = "True" /\ setup_log = CodeSetupOrder

\* The step of the spec's per-frame list a call belongs to: 1 poll-input,
\* 2 update-camera, 3 clear, 4 draw, 5 present.
FrameStep(call) ==
    CASE call \in {"get_key", "poll_events", "window_size_callback"} -> 1
      [] call \in {"transform_matrix", "glUniformMatrix4fv", "glViewport"} -> 2
      [] call = "glClear" -> 3
      [] call = "glDrawArrays" -> 4
      [] OTHER -> 5

\* C2 as stated: a rendering update performs poll-input (key reads and
\* poll_events), update-camera, clear, draw, present in that order, each of
\* them once.
C2_SpecFrameOrder ==
    Rendered =>
      /\ \A i, j \in DOMAIN gl_calls :
           i < j => FrameStep(gl_calls[i]) <= FrameStep(gl_calls[j])
      /\ \A i, j \in DOMAIN gl_calls : gl_calls[i] = gl_calls[j] => i = j

\* C2 amended: a rendering update reads the keys, updates the camera transform,
\* uploads the MVP, clears, draws, swaps buffers and then polls events, each
\* once and in that order; a resize callback run by that poll_events follows,
\* uploading the MVP again and setting the viewport.
C2_FrameOrder ==
    Rendered =>
      /\ SubSeq(gl_calls, 1, 7) =
           <<"get_key", "transform_matrix", "glUniformMatrix4fv", "glClear",
             "glDrawArrays", "swap_buffers", "poll_events">>
      /\ \/ Len(gl_calls) = 7
         \/ SubSeq(gl_calls, 8, Len(gl_calls)) =
              <<"window_size_callback", "glUniformMatrix4fv", "glViewport">>

C2_Witness ==
    /\ Rendered
    /\ last_result = "True"
    /\ Len(gl_calls) = 7
    /\ transform_matrix # Identity

\* C3: every setup failure ends the constructor with an error message printed
\* and sys.exit, no later setup step and no call of update.
C3_SetupFailureExits ==
    failure # "none" =>
      /\ pc = "sys_exit"
      /\ stdout # <<>> /\ stdout[Len(stdout)] \in ErrorLines
      /\ ~UpdateCalled

\* C4: every frame update renders draws len(model_vertices) / 3 vertices of
\* the constructor's model_vertices argument.
C4_DrawsConstructorModel ==
    /\ Rendered => drawn = <<Len(model_vertices_arg) \div 3>>
    /\ Rendering => last_result # "raised"

\* C5: load_shader returns True exactly when the file was read and the shader
\* compiled, and returns False for every other call.
C5_LoadShaderReturns ==
    \A i \in DOMAIN shader_load :
      shader_load[i].outcome =
        (IF shader_load[i].file_ok /\ shader_load[i].compile_ok
         THEN "True" ELSE "False")

\* C6: after window_size_callback has run, window_size is the framebuffer
\* size, the uploaded MVP is computed from it, and the viewport has the width
\* and height of window_size.
C6_ResizeUsesFramebuffer ==
    "window_size_callback" \in Calls(gl_calls) =>
      /\ window_size = framebuffer_size
      /\ mvp_matrix.proj = perspectiveFovLH_NO(framebuffer_size[1], framebuffer_size[2])
      /\ mvp_matrix.view = transform_matrix
      /\ viewport = window_size

\* C7: an update that starts with ESCAPE pressed returns False at once,
\* whatever else is pressed: transform, window size, MVP, viewport, key states
\* and close flag are unchanged, its only call is the key read, and the main
\* loop prints "Exit. " once and takes no step afterwards.
C7_EscapeReturnsAtOnce ==
    /\ [][(pc = "loop" /\ "ESCAPE" \in keys) =>
            /\ last_result' = "False"
            /\ gl_calls' = <<"get_key">>
            /\ drawn' = <<>>
            /\ UNCHANGED <<transform_matrix, window_size, framebuffer_size,
                           viewport, mvp_matrix, keys, should_close>>
            /\ caller = "main" =>
                 /\ pc' = "exited"
                 /\ stdout' = Append(stdout, "Exit. ")
                 /\ "Exit. " \notin Calls(stdout)]_vars
    /\ [][pc # "exited"]_vars

C7_Witness ==
    /\ pc = "exited"
    /\ keys = {"ESCAPE", "W"}
    /\ gl_calls = <<"get_key">>
    /\ transform_matrix # Identity

\* Every movement key that is pressed is pressed together with its opposite.
Cancelled(ks) ==
    \A p \in {<<"W", "S">>, <<"A", "D">>, <<"UP", "DOWN">>, <<"LEFT", "RIGHT">>} :
      (p[1] \in ks) <=> (p[2] \in ks)

C9_LoopTermination ==
    /\ [][(caller = "main" /\ pc = "loop") =>
            /\ last_result' \in {"True", "False"}
            /\ (pc' = "exited") <=> (last_result' = "False")
            /\ (last_result' = "False") <=> ("ESCAPE" \in keys \/ should_close')
            /\ last_result' = "True" => pc' = "loop" /\ stdout' = stdout
            /\ pc' = "exited" => stdout' = Append(stdout, "Exit. ")
            /\ (should_close' /\ "ESCAPE" \notin keys) =>
                 /\ ~should_close
                 /\ SubSeq(gl_calls', 5, 7) =
                      <<"glDrawArrays", "swap_buffers", "poll_events">>]_vars
    /\ (caller = "main" /\ pc = "loop" /\ ("ESCAPE" \in keys \/ should_close))
         ~> (pc = "exited" /\ stdout[Len(stdout)] = "Exit. ")

C9_Witness ==
    /\ pc = "exited"
    /\ should_close
    /\ "ESCAPE" \notin keys
    /\ Rendered

====
